---- MODULE Spec2Model ----
(***************************************************************************)
(* The in-memory GitHub response cache (class GitHubCache, the singleton   *)
(* githubCache, the wrapper cachedFetch and the periodic cleanup).         *)
(*                                                                         *)
(* URLs, header serialisations and cache keys are strings: getTTL is the   *)
(* substring search of the source and generateKey builds the string        *)
(* `${url}:${JSON.stringify(headers)}`; the SHA-256 digest of that string  *)
(* is represented by the string itself (the digest is taken to be          *)
(* injective).  Times are milliseconds.                                    *)
(***************************************************************************)
EXTENDS Integers, Sequences, FiniteSets, TLC

VARIABLES now, cache, calls, last

vars == <<now, cache, calls, last>>

(***************************************************************************)
(* Bounds and input sets                                                   *)
(***************************************************************************)
\* the last clock reading the environment supplies
MaxNow == 121001

\* largest number of entries the store is let grow to
MaxStore == 2

\* TTL constants of GitHubCache
DEFAULT_TTL == 5 * 60 * 1000
REPO_STATS_TTL == 2 * 60 * 1000
CONTRIBUTORS_TTL == 10 * 60 * 1000

UrlRepo == "https://api.example.com/repos/o/r"
UrlOctocat == "https://api.github.com/repos/octocat/Hello-World"
UrlContributors == "https://api.github.com/repos/o/r/contributors?per_page=100"
UrlPulls == "https://api.github.com/repos/octocat/Hello-World/pulls"
UrlCommits == "https://api.github.com/repos/o/r/commits?per_page=100"
UrlCommitsOrg == "https://api.github.com/repos/commits-org/r"

UrlContents == "https://api.github.com/repos/o/r/contents"
\* a file named contributors among the contents of a repository
UrlContentsContributors == "https://api.github.com/repos/o/r/contents/contributors"

\* the URLs that meet more than one condition of the TTL rules
RuleUrls == {UrlCommits, UrlContents, UrlContentsContributors, UrlContributors}

\* readings of Date.now() just after each of the three TTLs
RuleInstants == {120001, 300001, 600001}

\* the URLs of the cache-API specification and of the TTL specification
Urls == {UrlRepo, UrlCommitsOrg}
TtlUrls == {UrlRepo, UrlOctocat, UrlContributors, UrlPulls, UrlCommits,
            UrlCommitsOrg}

\* header mappings, as the insertion-ordered list of their name/value pairs
NoHeaders == << >>
\* the mapping the tools build when GITHUB_TOKEN is set
AuthHeaders ==
    << <<"Accept", "application/vnd.github.v3+json">>,
       <<"User-Agent", "GitHubReporter-Agent">>,
       <<"Authorization", "token a">> >>

\* the same mapping built for another GITHUB_TOKEN
AuthHeadersB ==
    << <<"Accept", "application/vnd.github.v3+json">>,
       <<"User-Agent", "GitHubReporter-Agent">>,
       <<"Authorization", "token b">> >>

\* the pairs of AuthHeaders, with Authorization inserted first
AuthHeadersReordered ==
    << <<"Authorization", "token a">>,
       <<"Accept", "application/vnd.github.v3+json">>,
       <<"User-Agent", "GitHubReporter-Agent">> >>

HeaderSets == {NoHeaders, AuthHeaders}

\* the requests of the cache-API specification: a URL and a header mapping
Requests ==
    {<<UrlRepo, NoHeaders>>, <<UrlRepo, AuthHeaders>>,
     <<UrlCommitsOrg, NoHeaders>>}

\* the requests of the key specification: two tokens, two insertion orders
\* and two repositories
KeyRequests ==
    {<<UrlRepo, AuthHeaders>>, <<UrlRepo, AuthHeadersB>>,
     <<UrlRepo, AuthHeadersReordered>>, <<UrlOctocat, AuthHeaders>>}

\* readings of Date.now() of the key specification
KeyInstants == {0, 120000, 120001}

\* the delay of the cleanup timer, in milliseconds
CleanupInterval == 60000

\* the last tick of the cleanup timer that is followed
LastSweep == 4 * CleanupInterval

\* readings of Date.now() between and after the ticks of the cleanup timer
SweepInstants == {1000, 120001, 180001}

\* readings of Date.now(): the instants around the expiry boundaries of an
\* entry stored at 0 or at 1000 with the two-minute TTL
Instants == {0, 1000, 120000, 120001, 121000, MaxNow}

\* readings around the boundaries of the two- and five-minute TTLs
TtlInstants == {0, 120000, 120001, 121000, 300000, 300001}

(***************************************************************************)
(* JSON values: a kind and the canonical text JSON.stringify produces      *)
(***************************************************************************)
JNull == [kind |-> "null", lit |-> "null"]
JStars == [kind |-> "object", lit |-> "{\"stars\":5}"]
JEmptyArray == [kind |-> "array", lit |-> "[]"]
JZero == [kind |-> "number", lit |-> "0"]
JNotFound == [kind |-> "object", lit |-> "{\"message\":\"Not Found\"}"]

\* the payloads handed to set directly
Payloads == {JStars, JZero}

JSONstringify(v) == v.lit

\* response bodies as the upstream sends them
BodyStars == "{ \"stars\": 5 }"
BodyEmptyArray == "[]"
BodyZero == "0"
BodyHtml == "<html>"
BodyNotFound == "{\"message\": \"Not Found\"}"

\* a decoder that yields null for a text that is not JSON
JSONparseLenient(text) ==
    [ok |-> TRUE, value |-> IF text = BodyStars THEN JStars ELSE JNull]

\* JSON.parse: the decoded value, or a failure (SyntaxError)
JSONparse(text) ==
    CASE text = BodyStars -> [ok |-> TRUE, value |-> JStars]
      [] text = JStars.lit -> [ok |-> TRUE, value |-> JStars]
      [] text = BodyEmptyArray -> [ok |-> TRUE, value |-> JEmptyArray]
      [] text = BodyZero -> [ok |-> TRUE, value |-> JZero]
      [] text = "null" -> [ok |-> TRUE, value |-> JNull]
      [] text = BodyNotFound -> [ok |-> TRUE, value |-> JNotFound]
      [] text = JNotFound.lit -> [ok |-> TRUE, value |-> JNotFound]
      [] OTHER -> [ok |-> FALSE, value |-> JNull]

\* the name/value pairs a header mapping holds
HeaderPairs(h) == {h[i] : i \in DOMAIN h}

\* what the upstream holds for a request: it depends on the repository and
\* on the token, not on the order the headers were inserted in
Upstream(url, headers) ==
    IF url = UrlOctocat THEN JNotFound
    ELSE IF <<"Authorization", "token b">> \in HeaderPairs(headers)
         THEN JEmptyArray
         ELSE JStars

\* JavaScript truthiness of a decoded JSON value (the test `if (cachedData)`)
Truthy(v) ==
    CASE v.kind = "null" -> FALSE
      [] v.kind = "number" -> v.lit # "0"
      [] v.kind = "string" -> v.lit # "\"\""
      [] v.kind = "boolean" -> v.lit = "true"
      [] OTHER -> TRUE

(***************************************************************************)
(* GitHubCache                                                             *)
(***************************************************************************)
\* String.prototype.includes
includes(s, t) ==
    \E i \in 1..(Len(s) - Len(t) + 1) : SubSeq(s, i, i + Len(t) - 1) = t

RECURSIVE JoinPairs(_)
JoinPairs(h) ==
    IF h = << >> THEN ""
    ELSE "\"" \o h[1][1] \o "\":\"" \o h[1][2] \o "\""
         \o (IF Len(h) > 1 THEN "," ELSE "") \o JoinPairs(Tail(h))

\* JSON.stringify of a Record<string, string>
stringifyHeaders(h) == "{" \o JoinPairs(h) \o "}"

\* a key made of the URL alone
generateKeyUrlOnly(url, headers) == url \o ":"

generateKey(url, headers) == url \o ":" \o stringifyHeaders(headers)

\* isExpired with the boundary reading counted as expired
isExpiredAtBoundary(entry, t) == t - entry.timestamp >= entry.ttl

isExpired(entry, t) == t - entry.timestamp > entry.ttl

\* getTTL with the contributors rule tested first
getTTLContributorsFirst(url) ==
    IF includes(url, "/contributors") THEN CONTRIBUTORS_TTL
    ELSE IF includes(url, "/repos/") /\ ~includes(url, "/commits")
                                      /\ ~includes(url, "/contents")
         THEN REPO_STATS_TTL
         ELSE DEFAULT_TTL

getTTL(url) ==
    IF includes(url, "/repos/") /\ ~includes(url, "/commits")
                               /\ ~includes(url, "/contents")
    THEN REPO_STATS_TTL
    ELSE IF includes(url, "/contributors") THEN CONTRIBUTORS_TTL
    ELSE DEFAULT_TTL

\* the value of Map.get on a missing key (undefined)
NoEntry == [data |-> JNull, timestamp |-> -1, ttl |-> -1]

MapGet(m, k) == IF k \in DOMAIN m THEN m[k] ELSE NoEntry
MapSet(m, k, e) == [x \in DOMAIN m \cup {k} |-> IF x = k THEN e ELSE m[x]]
MapDelete(m, k) == [x \in DOMAIN m \ {k} |-> m[x]]
EmptyMap == [x \in {} |-> NoEntry]

\* get without the expiry test
GetResultNoExpiry(m, url, headers, t) ==
    MapGet(m, generateKey(url, headers)).data

\* what GitHubCache.get returns, and the store it leaves
GetResult(m, url, headers, t) ==
    LET entry == MapGet(m, generateKey(url, headers))
    IN IF entry = NoEntry \/ isExpired(entry, t) THEN JNull ELSE entry.data

\* get that, on a miss, deletes every expired entry of the store
GetStoreSweep(m, url, headers, t) ==
    LET key == generateKey(url, headers)
        entry == MapGet(m, key)
    IN IF entry = NoEntry \/ isExpired(entry, t)
       THEN [x \in {k \in DOMAIN m \ {key} : ~isExpired(m[k], t)} |-> m[x]]
       ELSE m

\* get with sliding expiration: a hit restarts the entry's lifetime
GetStoreSliding(m, url, headers, t) ==
    LET key == generateKey(url, headers)
        entry == MapGet(m, key)
    IN IF entry = NoEntry \/ isExpired(entry, t) THEN MapDelete(m, key)
       ELSE MapSet(m, key, [entry EXCEPT !.timestamp = t])

\* get that remembers a miss on a missing key as an entry holding null
GetStoreNegative(m, url, headers, t) ==
    LET key == generateKey(url, headers)
        entry == MapGet(m, key)
    IN IF entry = NoEntry
       THEN MapSet(m, key, [data |-> JNull, timestamp |-> t, ttl |-> getTTL(url)])
       ELSE IF isExpired(entry, t) THEN MapDelete(m, key) ELSE m

\* get that answers null for an expired entry and leaves it in the store
GetStoreKeepExpired(m, url, headers, t) == m

GetStore(m, url, headers, t) ==
    LET key == generateKey(url, headers)
        entry == MapGet(m, key)
    IN IF entry = NoEntry \/ isExpired(entry, t) THEN MapDelete(m, key) ELSE m

\* set that stores nothing
SetStoreNothing(m, url, headers, data, t) == m

\* set that keeps the timestamp of the entry it replaces
SetStoreKeepTimestamp(m, url, headers, data, t) ==
    LET key == generateKey(url, headers)
    IN MapSet(m, key,
              [data |-> data,
               timestamp |-> IF key \in DOMAIN m THEN m[key].timestamp ELSE t,
               ttl |-> getTTL(url)])

\* set that gives every entry the default TTL
SetStoreDefaultTTL(m, url, headers, data, t) ==
    MapSet(m, generateKey(url, headers),
           [data |-> data, timestamp |-> t, ttl |-> DEFAULT_TTL])

\* set that keeps the entry a key already has (first write wins)
SetStoreKeepExisting(m, url, headers, data, t) ==
    IF generateKey(url, headers) \in DOMAIN m THEN m
    ELSE MapSet(m, generateKey(url, headers),
                [data |-> data, timestamp |-> t, ttl |-> getTTL(url)])

\* the store GitHubCache.set leaves
SetStore(m, url, headers, data, t) ==
    MapSet(m, generateKey(url, headers),
           [data |-> data, timestamp |-> t, ttl |-> getTTL(url)])

\* cleanup that deletes every entry it visits
CleanupStoreAll(m, t) == EmptyMap

\* cleanup that stops after the first entry it deletes
CleanupStoreFirst(m, t) ==
    LET expired == {k \in DOMAIN m : isExpired(m[k], t)}
    IN IF expired = {} THEN m
       ELSE MapDelete(m, CHOOSE k \in expired : TRUE)

\* cleanup that also deletes the entries whose age equals their TTL
CleanupStoreAtBoundary(m, t) ==
    [x \in {k \in DOMAIN m : t - m[k].timestamp < m[k].ttl} |-> m[x]]

\* the store GitHubCache.cleanup leaves
CleanupStore(m, t) ==
    [x \in {k \in DOMAIN m : ~isExpired(m[k], t)} |-> m[x]]

\* the cache operation that ran last: its arguments, the entry the store
\* held under its key when it ran (the local `entry` of get, the entry set
\* replaces), the reading of Date.now() it took, what it returned, and the
\* number of entries a cleanup deleted (its local cleanedCount)
Op(op, url, headers, data, entry, at, result) ==
    [op |-> op, url |-> url, headers |-> headers, data |-> data,
     entry |-> entry, at |-> at, result |-> result, cleaned |-> 0]

NoOp == Op("none", "", NoHeaders, JNull, NoEntry, 0, JNull)

GetOp(url, headers) ==
    Op("get", url, headers, JNull, MapGet(cache, generateKey(url, headers)),
       now, GetResult(cache, url, headers, now))

SetOp(url, headers, data) ==
    Op("set", url, headers, data, MapGet(cache, generateKey(url, headers)),
       now, JNull)

\* the cleanedCount of GitHubCache.cleanup
CleanedCount(m, t) == Cardinality({k \in DOMAIN m : isExpired(m[k], t)})

CleanupOp ==
    [Op("cleanup", "", NoHeaders, JNull, NoEntry, now, JNull)
        EXCEPT !.cleaned = CleanedCount(cache, now)]

\* the store has room for an entry under this key
Room(url, headers) ==
    \/ generateKey(url, headers) \in DOMAIN cache
    \/ Cardinality(DOMAIN cache) < MaxStore

Get(url, headers) ==
    /\ cache' = GetStore(cache, url, headers, now)
    /\ last' = GetOp(url, headers)
    /\ UNCHANGED <<now, calls>>

Set(url, headers, data) ==
    /\ Room(url, headers)
    /\ cache' = SetStore(cache, url, headers, data, now)
    /\ last' = SetOp(url, headers, data)
    /\ UNCHANGED <<now, calls>>

\* clear that removes the expired entries only
ClearExpiredOnly ==
    /\ cache' = CleanupStore(cache, now)
    /\ last' = Op("clear", "", NoHeaders, JNull, NoEntry, now, JNull)
    /\ UNCHANGED <<now, calls>>

Clear ==
    /\ cache' = EmptyMap
    /\ last' = Op("clear", "", NoHeaders, JNull, NoEntry, now, JNull)
    /\ UNCHANGED <<now, calls>>

Cleanup ==
    /\ cache' = CleanupStore(cache, now)
    /\ last' = CleanupOp
    /\ UNCHANGED <<now, calls>>

\* the clock moves on to the reading t
Tick(t) ==
    /\ t > now
    /\ now' = t
    /\ UNCHANGED <<cache, calls, last>>

\* the reading at which the cleanup timer is due next
NextDue == ((now \div CleanupInterval) + 1) * CleanupInterval

\* a timer whose callback does not sweep
TimerFireNoSweep ==
    /\ NextDue <= LastSweep
    /\ now' = NextDue
    /\ last' = Op("cleanup", "", NoHeaders, JNull, NoEntry, NextDue, JNull)
    /\ UNCHANGED <<cache, calls>>

\* the interval has elapsed: the timer's callback runs cleanup()
TimerFire ==
    /\ NextDue <= LastSweep
    /\ now' = NextDue
    /\ cache' = CleanupStore(cache, NextDue)
    /\ last' = [Op("cleanup", "", NoHeaders, JNull, NoEntry, NextDue, JNull)
                   EXCEPT !.cleaned = CleanedCount(cache, NextDue)]
    /\ UNCHANGED calls

(***************************************************************************)
(* cachedFetch                                                             *)
(***************************************************************************)
CallIds == {1}

\* two invocations of cachedFetch in flight at once (Promise.all)
RaceIds == {1, 2}

\* readings of Date.now() of the specifications with two invocations
RaceInstants == {1000, 121001}

\* RequestInit: the headers option (absent or a mapping) and the method
Options(hasHeaders, headers, method) ==
    [hasHeaders |-> hasHeaders, headers |-> headers, method |-> method]

NoOptions == Options(FALSE, NoHeaders, "GET")

FetchUrls == {UrlRepo}
FetchOptions == {NoOptions, Options(TRUE, AuthHeaders, "GET")}

\* options that agree on the headers and differ in the method, with the
\* headers option absent, empty or set
OptionSets ==
    {NoOptions, Options(FALSE, NoHeaders, "POST"),
     Options(TRUE, NoHeaders, "GET"),
     Options(TRUE, AuthHeaders, "GET"), Options(TRUE, AuthHeaders, "POST")}

\* readings of Date.now() of the options specification
OptionInstants == {120000, 120001}

\* (options.headers as Record<string, string>) || {}
HeadersOf(options) ==
    IF options.hasHeaders THEN options.headers ELSE NoHeaders

\* a Response object (origin tells the upstream's object from one built
\* by cachedFetch), or a thrown failure
Response(origin, status, body) ==
    [kind |-> "response", origin |-> origin, status |-> status, body |-> body]

Thrown(origin) ==
    [kind |-> "error", origin |-> origin, status |-> 0, body |-> ""]

NoResponse == [kind |-> "none", origin |-> "", status |-> 0, body |-> ""]

\* new Response(JSON.stringify(data), { status, ... })
NewResponse(data, status) == Response("constructed", status, JSONstringify(data))

\* ok without the upper limit of the success range
okNoUpperLimit(response) == response.status >= 200

\* Response.ok
ok(response) == response.status >= 200 /\ response.status <= 299

\* what the upstream may answer
UpstreamResponses ==
    {Response("upstream", 200, BodyStars),
     Response("upstream", 201, BodyEmptyArray),
     Response("upstream", 200, BodyZero),
     Response("upstream", 200, BodyHtml),
     Response("upstream", 404, BodyNotFound)}

\* the URLs requested while another request is in flight: the same key and
\* another one
LockUrls == {UrlRepo, UrlCommitsOrg}

\* readings of Date.now() while a request is in flight
LockInstants == {121001}

\* what the upstream may answer to racing requests
RaceResponses ==
    {Response("upstream", 200, BodyStars),
     Response("upstream", 201, BodyEmptyArray)}

\* an upstream that answers a GET with the resource and a POST with 201
MethodAnswer(options) ==
    IF options.method = "GET"
    THEN Response("upstream", 200, BodyStars)
    ELSE Response("upstream", 201, BodyEmptyArray)

\* one invocation of cachedFetch: its position, its arguments, its locals,
\* the number of upstream requests it made and what it returned
IdleCall ==
    [pc |-> "idle", url |-> "", options |-> NoOptions, cachedData |-> JNull,
     response |-> NoResponse, fetched |-> 0, result |-> NoResponse]

\* a wrapper that looks into the cache for GET requests only
CallGetOnlyForGET(c, url, options) ==
    /\ calls[c].pc \in {"idle", "done"}
    /\ cache' = IF options.method = "GET"
                THEN GetStore(cache, url, HeadersOf(options), now)
                ELSE cache
    /\ last' = IF options.method = "GET"
               THEN GetOp(url, HeadersOf(options))
               ELSE last
    /\ calls' = [calls EXCEPT ![c] =
                    [IdleCall EXCEPT !.pc = "gotCache", !.url = url,
                        !.options = options,
                        !.cachedData =
                            IF options.method = "GET"
                            THEN GetResult(cache, url, HeadersOf(options), now)
                            ELSE JNull]]
    /\ UNCHANGED now

\* a wrapper that waits while another invocation holds a request in flight
CallGetLocked(c, url, options) ==
    /\ calls[c].pc \in {"idle", "done"}
    /\ \A d \in DOMAIN calls \ {c} : calls[d].pc \notin {"fetching", "decoding"}
    /\ cache' = GetStore(cache, url, HeadersOf(options), now)
    /\ last' = GetOp(url, HeadersOf(options))
    /\ calls' = [calls EXCEPT ![c] =
                    [IdleCall EXCEPT !.pc = "gotCache", !.url = url,
                        !.options = options,
                        !.cachedData =
                            GetResult(cache, url, HeadersOf(options), now)]]
    /\ UNCHANGED now

\* lines 94-97: cachedFetch is called and runs up to the await of get
CallGet(c, url, options) ==
    /\ calls[c].pc \in {"idle", "done"}
    /\ cache' = GetStore(cache, url, HeadersOf(options), now)
    /\ last' = GetOp(url, HeadersOf(options))
    /\ calls' = [calls EXCEPT ![c] =
                    [IdleCall EXCEPT !.pc = "gotCache", !.url = url,
                        !.options = options,
                        !.cachedData =
                            GetResult(cache, url, HeadersOf(options), now)]]
    /\ UNCHANGED now

\* lines 98-103: the cached payload is truthy
CallHit(c) ==
    /\ calls[c].pc = "gotCache"
    /\ Truthy(calls[c].cachedData)
    /\ calls' = [calls EXCEPT ![c].pc = "done",
                              ![c].result = NewResponse(calls[c].cachedData, 200)]
    /\ UNCHANGED <<now, cache, last>>

\* a wrapper that joins a request already in flight for the same key
CallFetchCoalesced(c) ==
    /\ calls[c].pc = "gotCache"
    /\ ~Truthy(calls[c].cachedData)
    /\ calls' = [calls EXCEPT ![c].pc = "fetching",
                    ![c].fetched =
                        IF \E d \in DOMAIN calls \ {c} :
                              /\ calls[d].pc \in {"fetching", "decoding"}
                              /\ calls[d].url = calls[c].url
                              /\ calls[d].options = calls[c].options
                        THEN calls[c].fetched
                        ELSE calls[c].fetched + 1]
    /\ UNCHANGED <<now, cache, last>>

\* line 106: the request goes out
CallFetch(c) ==
    /\ calls[c].pc = "gotCache"
    /\ ~Truthy(calls[c].cachedData)
    /\ calls' = [calls EXCEPT ![c].pc = "fetching",
                              ![c].fetched = calls[c].fetched + 1]
    /\ UNCHANGED <<now, cache, last>>

\* lines 106-109 and 119: the upstream answers
FetchResolve(c, response) ==
    /\ calls[c].pc = "fetching"
    /\ calls' = IF ok(response)
                THEN [calls EXCEPT ![c].pc = "decoding",
                                   ![c].response = response]
                ELSE [calls EXCEPT ![c].pc = "done",
                                   ![c].result = response]
    /\ UNCHANGED <<now, cache, last>>

\* a wrapper that catches the rejection and answers with a response
FetchRejectSwallow(c) ==
    /\ calls[c].pc = "fetching"
    /\ calls' = [calls EXCEPT ![c].pc = "done",
                              ![c].result = NewResponse(JNull, 502)]
    /\ UNCHANGED <<now, cache, last>>

\* line 106: fetch rejects
FetchReject(c) ==
    /\ calls[c].pc = "fetching"
    /\ calls' = [calls EXCEPT ![c].pc = "done", ![c].result = Thrown("fetch")]
    /\ UNCHANGED <<now, cache, last>>

\* a wrapper that drops its set when the store was cleared during the call
JsonResolveSkipAfterClear(c) ==
    LET call == calls[c]
        parsed == JSONparse(call.response.body)
        headers == HeadersOf(call.options)
    IN /\ call.pc = "decoding"
       /\ calls' = [calls EXCEPT ![c].pc = "done",
                      ![c].response = NoResponse,
                      ![c].result =
                          IF parsed.ok
                          THEN NewResponse(parsed.value, call.response.status)
                          ELSE Thrown("json")]
       /\ IF parsed.ok /\ last.op # "clear"
          THEN /\ Room(call.url, headers)
               /\ cache' = SetStore(cache, call.url, headers, parsed.value, now)
               /\ last' = SetOp(call.url, headers, parsed.value)
          ELSE UNCHANGED <<cache, last>>
       /\ UNCHANGED now

\* lines 109-116: the body is decoded, stored and returned
JsonResolve(c) ==
    LET call == calls[c]
        parsed == JSONparse(call.response.body)
        headers == HeadersOf(call.options)
    IN /\ call.pc = "decoding"
       /\ IF parsed.ok
          THEN /\ Room(call.url, headers)
               /\ cache' = SetStore(cache, call.url, headers, parsed.value, now)
               /\ last' = SetOp(call.url, headers, parsed.value)
               /\ calls' = [calls EXCEPT ![c].pc = "done",
                              ![c].response = NoResponse,
                              ![c].result =
                                  NewResponse(parsed.value, call.response.status)]
          ELSE /\ calls' = [calls EXCEPT ![c].pc = "done",
                              ![c].response = NoResponse,
                              ![c].result = Thrown("json")]
               /\ UNCHANGED <<cache, last>>
       /\ UNCHANGED now

(***************************************************************************)
(* Specifications                                                          *)
(***************************************************************************)
Init ==
    /\ now = 0
    /\ cache = EmptyMap
    /\ calls = [c \in CallIds |-> IdleCall]
    /\ last = NoOp

\* the cache's own operations
Next ==
    \/ \E r \in Requests : Get(r[1], r[2])
    \/ \E r \in Requests, d \in Payloads : Set(r[1], r[2], d)
    \/ Clear
    \/ Cleanup
    \/ \E t \in Instants : Tick(t)

Spec == Init /\ [][Next]_vars

\* the cache behind cachedFetch
NextFetch ==
    \/ \E c \in CallIds, u \in FetchUrls, o \in FetchOptions : CallGet(c, u, o)
    \/ \E c \in CallIds : CallHit(c)
    \/ \E c \in CallIds : CallFetch(c)
    \/ \E c \in CallIds, r \in UpstreamResponses : FetchResolve(c, r)
    \/ \E c \in CallIds : FetchReject(c)
    \/ \E c \in CallIds : JsonResolve(c)
    \/ Clear
    \/ Cleanup
    \/ \E t \in Instants : Tick(t)

SpecFetch == Init /\ [][NextFetch]_vars

\* requests that differ in the URL, in a header value or in the order of
\* the headers, through the cache and through cachedFetch
NextKeys ==
    \/ \E r \in KeyRequests : Get(r[1], r[2])
    \/ \E r \in KeyRequests : Set(r[1], r[2], Upstream(r[1], r[2]))
    \/ \E c \in CallIds, r \in KeyRequests :
          CallGet(c, r[1], Options(TRUE, r[2], "GET"))
    \/ \E c \in CallIds : CallHit(c)
    \/ \E c \in CallIds : CallFetch(c)
    \/ \E c \in CallIds :
          FetchResolve(c, Response("upstream", 200,
              JSONstringify(Upstream(calls[c].url, HeadersOf(calls[c].options)))))
    \/ \E c \in CallIds : JsonResolve(c)
    \/ \E t \in KeyInstants : Tick(t)

SpecKeys == Init /\ [][NextKeys]_vars

\* the cache under the cleanup timer: the clock passes no tick of the timer
\* without the callback running, and an entry is stored only if a tick
\* follows its expiry
NextSweep ==
    \/ \E r \in Requests : Get(r[1], r[2])
    \/ \E r \in Requests :
          /\ now + getTTL(r[1]) < LastSweep
          /\ Set(r[1], r[2], JStars)
    \/ \E t \in SweepInstants : t < NextDue /\ Tick(t)
    \/ TimerFire

\* the timer keeps firing
SpecSweep == Init /\ [][NextSweep]_vars /\ WF_vars(TimerFire)

\* set and get over URLs that meet more than one condition of the TTL rules
NextRules ==
    \/ \E u \in RuleUrls : Set(u, NoHeaders, JStars)
    \/ \E u \in RuleUrls : Get(u, NoHeaders)
    \/ \E t \in RuleInstants : Tick(t)

SpecRules == Init /\ [][NextRules]_vars

\* cachedFetch called with options that differ in the method
NextOptions ==
    \/ \E c \in CallIds, u \in FetchUrls, o \in OptionSets : CallGet(c, u, o)
    \/ \E c \in CallIds : CallHit(c)
    \/ \E c \in CallIds : CallFetch(c)
    \/ \E c \in CallIds : FetchResolve(c, MethodAnswer(calls[c].options))
    \/ \E c \in CallIds : JsonResolve(c)
    \/ \E t \in OptionInstants : Tick(t)

SpecOptions == Init /\ [][NextOptions]_vars

InitRace ==
    /\ now = 0
    /\ cache = EmptyMap
    /\ calls = [c \in RaceIds |-> IdleCall]
    /\ last = NoOp

\* two cachedFetch invocations for the same key, interleaved at their awaits
NextRace ==
    \/ \E c \in RaceIds : CallGet(c, UrlRepo, NoOptions)
    \/ \E c \in RaceIds : CallHit(c)
    \/ \E c \in RaceIds : CallFetch(c)
    \/ \E c \in RaceIds, r \in RaceResponses : FetchResolve(c, r)
    \/ \E c \in RaceIds : JsonResolve(c)
    \/ \E t \in RaceInstants : Tick(t)

SpecRace == InitRace /\ [][NextRace]_vars

\* two cachedFetch invocations and the cache's own operations, on the same
\* key and on another one
NextNoLock ==
    \/ \E c \in RaceIds, u \in LockUrls : CallGet(c, u, NoOptions)
    \/ \E c \in RaceIds : CallHit(c)
    \/ \E c \in RaceIds : CallFetch(c)
    \/ \E c \in RaceIds : FetchResolve(c, Response("upstream", 200, BodyStars))
    \/ \E c \in RaceIds : JsonResolve(c)
    \/ \E u \in LockUrls : Get(u, NoHeaders)
    \/ \E u \in LockUrls : Set(u, NoHeaders, JEmptyArray)
    \/ Clear
    \/ Cleanup
    \/ \E t \in LockInstants : Tick(t)

SpecNoLock == InitRace /\ [][NextNoLock]_vars

\* set and get over the URL shapes the tools request
NextTTL ==
    \/ \E u \in TtlUrls : Set(u, NoHeaders, JStars)
    \/ \E u \in TtlUrls : Get(u, NoHeaders)
    \/ Cleanup
    \/ \E t \in TtlInstants : Tick(t)

SpecTTL == Init /\ [][NextTTL]_vars

(***************************************************************************)
(* Properties                                                              *)
(***************************************************************************)
KeyOf(op) == generateKey(op.url, op.headers)

\* the step is set(u, h, d), get(u, h): the record of the operation is
\* compared first, the action itself second
SetStep(u, h, d) ==
    /\ last'.op = "set" /\ last'.url = u /\ last'.headers = h /\ last'.data = d
    /\ Set(u, h, d)

GetStep(u, h) ==
    /\ last'.op = "get" /\ last'.url = u /\ last'.headers = h
    /\ Get(u, h)

\* the keys of the cache-API specification
KeyTable == [u \in Urls, h \in HeaderSets |-> generateKey(u, h)]

RequestUrls == {r[1] : r \in Requests}
RequestHeaders(u) == {r[2] : r \in {q \in Requests : q[1] = u}}

Age(op) == op.at - op.entry.timestamp

\* C1: a get that finds an entry with now - storedAt > ttl returns absent
\* (null), never that entry's payload, and leaves no entry under the key.
C1_ExpiredNeverReturned ==
    (last.op = "get" /\ last.entry # NoEntry /\ Age(last) > last.entry.ttl)
        => /\ last.result = JNull
           /\ KeyOf(last) \notin DOMAIN cache

C1_Witness ==
    /\ last.op = "get"
    /\ last.entry # NoEntry
    /\ Age(last) > last.entry.ttl
    /\ last.result = JNull

\* C2: set(url, h, A) stores A under the key of (url, h); every step other
\* than clear() and a set on the same (url, h) - cleanup(), get and set on
\* other keys, the clock - keeps the entry as it is while it is fresh, and a
\* get of (url, h) on a fresh entry returns its payload.
C2_SetThenGet ==
    [][\A u \in RequestUrls : \A h \in RequestHeaders(u) :
          LET k == KeyTable[u, h]
          IN /\ \A d \in Payloads :
                    SetStep(u, h, d) => /\ k \in DOMAIN cache'
                                        /\ cache'[k].data = d
                                        /\ cache'[k].timestamp = now
             /\ ( /\ k \in DOMAIN cache
                  /\ now' - cache[k].timestamp <= cache[k].ttl
                  /\ last'.op # "clear"
                  /\ ~(\E d \in Payloads : SetStep(u, h, d)) )
                    => /\ k \in DOMAIN cache'
                       /\ cache'[k] = cache[k]
                       /\ GetStep(u, h) => last'.result = cache[k].data]_vars

C2_Witness ==
    /\ last.op = "get"
    /\ last.result = JStars
    /\ last.at > last.entry.timestamp
    /\ Cardinality(DOMAIN cache) = 2

\* C3: a get at a reading t of an entry stored at T with TTL D returns the
\* payload when t - T <= D (t - T = D included) and absent when t - T > D.
C3_ExpiryBoundary ==
    (last.op = "get" /\ last.entry # NoEntry)
        => /\ Age(last) <= last.entry.ttl => last.result = last.entry.data
           /\ Age(last) > last.entry.ttl => last.result = JNull

C3_Witness ==
    /\ last.op = "get"
    /\ last.entry # NoEntry
    /\ Age(last) = last.entry.ttl
    /\ last.result = last.entry.data
    /\ last.result # JNull

\* the entry stored for a URL of the TTL specification
Stored(u) == generateKey(u, NoHeaders) \in DOMAIN cache
StoredTTL(u) == cache[generateKey(u, NoHeaders)].ttl

\* the positions of a character in a string
Positions(s, ch) == {j \in 1..Len(s) : SubSeq(s, j, j) = ch}

\* the URL is <api>/repos/{owner}/{repo} and nothing more
IsSingleRepo(u) ==
    \E i \in 1..(Len(u) - 6) :
        /\ SubSeq(u, i, i + 6) = "/repos/"
        /\ LET rest == SubSeq(u, i + 7, Len(u))
           IN /\ Cardinality(Positions(rest, "/")) = 1
              /\ \A j \in Positions(rest, "/") : 1 < j /\ j < Len(rest)
              /\ Positions(rest, "?") = {}

\* C4: every URL that contains '/contributors' is stored with the
\* 10-minute TTL.
C4_ContributorsTTL ==
    \A u \in TtlUrls :
        (Stored(u) /\ includes(u, "/contributors"))
            => StoredTTL(u) = 600000

\* C5: every URL that is neither a single-repository resource nor a
\* contributors listing is stored with the 5-minute default TTL.
C5_DefaultTTL ==
    \A u \in TtlUrls :
        (Stored(u) /\ ~IsSingleRepo(u) /\ ~includes(u, "/contributors"))
            => StoredTTL(u) = 300000

\* C6: for every owner and repository name the URL <api>/repos/{owner}/{repo}
\* is stored with the 2-minute TTL, so that a get 121 seconds after the set
\* returns absent.
C6_RepoStatsTTL ==
    /\ \A u \in TtlUrls : (Stored(u) /\ IsSingleRepo(u)) => StoredTTL(u) = 120000
    /\ ( /\ last.op = "get"
         /\ IsSingleRepo(last.url)
         /\ last.entry # NoEntry
         /\ Age(last) >= 121000 ) => last.result = JNull

\* the key a cachedFetch invocation looks up and stores under
CallKey(call) == generateKey(call.url, HeadersOf(call.options))

Success(status) == status \in 200..299

\* C7: when get reported absent and the upstream answers with a non-success
\* status, cachedFetch returns that response object as it is and performs no
\* set: the store is left as it was and a get of the same url and headers
\* returns absent.
C7_NoCachingOnFailure ==
    [][\A c \in CallIds, r \in UpstreamResponses :
          (FetchResolve(c, r) /\ ~Success(r.status))
              => /\ calls'[c].pc = "done"
                 /\ calls'[c].result = r
                 /\ cache' = cache
                 /\ last' = last
                 /\ calls[c].cachedData = JNull =>
                        GetResult(cache', calls[c].url,
                                  HeadersOf(calls[c].options), now') = JNull]_vars

C7_Witness ==
    \E c \in CallIds :
        /\ calls[c].pc = "done"
        /\ calls[c].cachedData = JNull
        /\ calls[c].fetched = 1
        /\ calls[c].result = Response("upstream", 404, BodyNotFound)
        /\ CallKey(calls[c]) \notin DOMAIN cache
        /\ last.op = "get"

\* C8: for every JSON payload stored for (url, headers) and still fresh,
\* cachedFetch returns a response with status 200 whose body is that
\* payload and makes no upstream request.
C8_HitServedFromCache ==
    \A c \in CallIds :
        (calls[c].pc # "idle" /\ calls[c].cachedData # JNull)
            => /\ calls[c].fetched = 0
               /\ calls[c].pc = "done" =>
                      /\ calls[c].result.kind = "response"
                      /\ calls[c].result.status = 200
                      /\ JSONparse(calls[c].result.body).value
                             = calls[c].cachedData

\* C9: when get reported absent, cachedFetch makes exactly one upstream
\* request; when the answer is successful and its body decodes, it sets the
\* decoded payload under (url, headers) and returns a new response with the
\* decoded payload and the upstream status, and a get that follows at once
\* returns the decoded payload.
C9_MissFetchesAndStores ==
    [][/\ \A c \in CallIds :
             (calls'[c].pc \in {"fetching", "decoding", "done"}
                  /\ calls'[c].cachedData = JNull) => calls'[c].fetched = 1
       /\ \A c \in CallIds :
             (JsonResolve(c) /\ JSONparse(calls[c].response.body).ok)
                 => LET decoded == JSONparse(calls[c].response.body).value
                        headers == HeadersOf(calls[c].options)
                    IN /\ calls'[c].pc = "done"
                       /\ calls'[c].result.kind = "response"
                       /\ calls'[c].result.origin = "constructed"
                       /\ calls'[c].result.status = calls[c].response.status
                       /\ JSONparse(calls'[c].result.body).value = decoded
                       /\ last'.op = "set"
                       /\ last'.url = calls[c].url
                       /\ last'.headers = headers
                       /\ last'.data = decoded
                       /\ GetResult(cache', calls[c].url, headers, now')
                              = decoded]_vars

C9_Witness ==
    \E c \in CallIds :
        /\ calls[c].pc = "done"
        /\ calls[c].cachedData = JNull
        /\ calls[c].fetched = 1
        /\ calls[c].result = Response("constructed", 201, "[]")
        /\ last.op = "set"
        /\ GetResult(cache, calls[c].url, HeadersOf(calls[c].options), now)
               = JEmptyArray

\* C10: a set on a key that has an entry replaces it: the store keeps the
\* same keys, the key's entry has the new payload, the time of this set and
\* the TTL of the URL, every other entry is as before, and a get at a later
\* reading t returns the new payload exactly when t minus the time of this
\* set is at most the TTL.
C10_Overwrite ==
    [][\A u \in RequestUrls : \A h \in RequestHeaders(u) : \A d \in Payloads :
          LET k == KeyTable[u, h]
          IN (SetStep(u, h, d) /\ k \in DOMAIN cache)
                 => /\ DOMAIN cache' = DOMAIN cache
                    /\ cache'[k] = [data |-> d, timestamp |-> now,
                                    ttl |-> getTTL(u)]
                    /\ \A x \in DOMAIN cache \ {k} : cache'[x] = cache[x]
                    /\ \A t \in Instants :
                          t >= now =>
                              GetResult(cache', u, h, t)
                                  = IF t - now <= getTTL(u) THEN d
                                    ELSE JNull]_vars

C10_Witness ==
    /\ last.op = "set"
    /\ last.entry # NoEntry
    /\ last.entry.data # last.data
    /\ last.entry.timestamp < last.at
    /\ cache[KeyOf(last)].timestamp = last.at
    /\ cache[KeyOf(last)].data = last.data

\* C11: cleanup() removes every entry with now - storedAt > ttl, looked up
\* before or not, and nothing else: the store it leaves is exactly the
\* entries that were not expired, and it is empty when every entry was
\* expired.
C11_CleanupSweepsExpired ==
    [][(last'.op = "cleanup" /\ Cleanup)
          => LET live == {k \in DOMAIN cache :
                             now - cache[k].timestamp <= cache[k].ttl}
             IN /\ DOMAIN cache' = live
                /\ \A k \in live : cache'[k] = cache[k]
                /\ last'.cleaned = Cardinality(DOMAIN cache \ live)
                /\ live = {} => cache' = EmptyMap]_vars

C11_Witness ==
    /\ last.op = "cleanup"
    /\ last.cleaned = 2
    /\ cache = EmptyMap

\* C12: a get that finds an expired entry makes the store smaller by
\* exactly one: the entry of its key is gone and every other entry, expired
\* or not, is as before; a cleanup() that follows finds nothing under that
\* key.
C12_LazyEviction ==
    [][\A u \in RequestUrls : \A h \in RequestHeaders(u) :
          LET k == KeyTable[u, h]
          IN ( /\ GetStep(u, h)
               /\ k \in DOMAIN cache
               /\ now - cache[k].timestamp > cache[k].ttl )
                 => /\ Cardinality(DOMAIN cache')
                           = Cardinality(DOMAIN cache) - 1
                    /\ DOMAIN cache' = DOMAIN cache \ {k}
                    /\ \A x \in DOMAIN cache' : cache'[x] = cache[x]
                    /\ k \notin DOMAIN CleanupStore(cache', now')
                    /\ \A x \in DOMAIN cache' :
                          x \in DOMAIN CleanupStore(cache', now')
                              <=> x \in DOMAIN CleanupStore(cache, now)]_vars

C12_Witness ==
    /\ last.op = "get"
    /\ last.entry # NoEntry
    /\ Age(last) > last.entry.ttl
    /\ Cardinality(DOMAIN cache) = 1
    /\ \A x \in DOMAIN cache : last.at - cache[x].timestamp > cache[x].ttl

\* two requests differ when their URLs differ or some header has another
\* value (or is missing) in one of them; the insertion order does not count
Differs(r1, r2) == r1[1] # r2[1] \/ HeaderPairs(r1[2]) # HeaderPairs(r2[2])

\* C13: requests that differ in the URL or in a header value have different
\* keys, so a get never returns, and a cachedFetch never serves from the
\* cache, a payload other than the one of its own request; the sha256
\* digest is taken to be injective, the key is the digested string.
C13_KeySensitivity ==
    /\ \A r1 \in KeyRequests : \A r2 \in KeyRequests :
          Differs(r1, r2) => generateKey(r1[1], r1[2]) # generateKey(r2[1], r2[2])
    /\ (last.op = "get" /\ last.result # JNull)
          => last.result = Upstream(last.url, last.headers)
    /\ \A c \in CallIds :
          (calls[c].pc = "done" /\ calls[c].fetched = 0)
              => calls[c].result
                   = NewResponse(Upstream(calls[c].url,
                                          HeadersOf(calls[c].options)), 200)

\* a request with another token misses while the payload of the first token
\* is stored and fresh, and is answered by the upstream
C13_Witness ==
    LET k == generateKey(UrlRepo, AuthHeaders)
    IN /\ k \in DOMAIN cache
       /\ now - cache[k].timestamp <= cache[k].ttl
       /\ \E c \in CallIds :
             /\ calls[c].pc = "done"
             /\ calls[c].url = UrlRepo
             /\ HeadersOf(calls[c].options) = AuthHeadersB
             /\ calls[c].fetched = 1
             /\ calls[c].cachedData = JNull
             /\ calls[c].result = NewResponse(JEmptyArray, 200)

\* C14: header mappings holding the same name-to-value pairs in different
\* insertion orders hit the same entry: a get with one ordering returns the
\* fresh payload that was set with the other ordering.
C14_SameKeyAnyOrder ==
    \A r \in KeyRequests :
       LET k == generateKey(r[1], r[2])
       IN ( /\ last.op = "get"
            /\ last.url = r[1]
            /\ HeaderPairs(last.headers) = HeaderPairs(r[2])
            /\ k \in DOMAIN cache
            /\ last.at - cache[k].timestamp <= cache[k].ttl )
              => last.result = cache[k].data

\* C15: when the upstream answers with a success status and a body that is
\* not JSON, the call ends with the decoding failure thrown to the caller
\* and the step stores nothing: the store and the record of the last cache
\* operation are as before.
C15_MalformedBody ==
    [][\A c \in CallIds :
          ( /\ calls[c].pc = "decoding"
            /\ calls[c].response.body = BodyHtml
            /\ calls'[c].pc # "decoding" )
              => /\ calls'[c].pc = "done"
                 /\ calls'[c].result = Thrown("json")
                 /\ cache' = cache
                 /\ last' = last]_vars

C15_Witness ==
    \E c \in CallIds :
       /\ calls[c].pc = "done"
       /\ calls[c].result = Thrown("json")
       /\ calls[c].fetched = 1
       /\ CallKey(calls[c]) \notin DOMAIN cache
       /\ last.op = "get"

\* C16: when the wrapped fetch rejects, the call ends with that rejection
\* thrown to the caller, not with a response and not with another error, and
\* the step leaves the store and the record of the last cache operation as
\* they were.
C16_FetchFailurePropagates ==
    [][\A c \in CallIds :
          ( /\ calls[c].pc = "fetching"
            /\ calls'[c].pc = "done"
            /\ calls'[c].result \notin UpstreamResponses )
              => /\ calls'[c].result = Thrown("fetch")
                 /\ calls'[c].response = NoResponse
                 /\ cache' = cache
                 /\ last' = last
                 /\ last.op # "set"]_vars

C16_Witness ==
    \E c \in CallIds :
       /\ calls[c].pc = "done"
       /\ calls[c].result = Thrown("fetch")
       /\ calls[c].fetched = 1
       /\ calls[c].cachedData = JNull
       /\ CallKey(calls[c]) \notin DOMAIN cache

\* the store m with the keys of S removed
Without(m, S) == [x \in DOMAIN m \ S |-> m[x]]

\* m2 is m1 less some entries that are expired at the reading t
SweptFrom(m1, m2, t) ==
    /\ DOMAIN m2 \subseteq DOMAIN m1
    /\ \A k \in DOMAIN m2 : m2[k] = m1[k]
    /\ \A k \in DOMAIN m1 \ DOMAIN m2 : t - m1[k].timestamp > m1[k].ttl

\* C17: cleanup() does not change what get returns. At every reachable store
\* and clock reading, get returns the same value for every request, now and
\* at every later reading, from the store and from the store cleanup()
\* leaves; and a store that lacks any expired entries of another (cleanup
\* having run at arbitrary earlier points) stays in that relation, with
\* equal results of get, under get, set, clear, cleanup and the passing of
\* time. The clock does not go backwards.
C17_CleanupInvisibleToGet ==
    LET swept == CleanupStore(cache, now)
        expired == {k \in DOMAIN cache :
                       now - cache[k].timestamp > cache[k].ttl}
    IN /\ SweptFrom(cache, swept, now)
       /\ \A r \in Requests : \A t \in Instants :
             t >= now => GetResult(swept, r[1], r[2], t)
                            = GetResult(cache, r[1], r[2], t)
       /\ \A S \in SUBSET expired :
             LET m2 == Without(cache, S)
             IN /\ \A t \in Instants : t >= now => SweptFrom(cache, m2, t)
                /\ SweptFrom(CleanupStore(cache, now), CleanupStore(m2, now), now)
                /\ \A r \in Requests :
                      /\ GetResult(m2, r[1], r[2], now)
                            = GetResult(cache, r[1], r[2], now)
                      /\ SweptFrom(GetStore(cache, r[1], r[2], now),
                                   GetStore(m2, r[1], r[2], now), now)
                      /\ \A d \in Payloads :
                            SweptFrom(SetStore(cache, r[1], r[2], d, now),
                                      SetStore(m2, r[1], r[2], d, now), now)

\* a cleanup deleted one expired entry and kept a fresh one
C17_Witness ==
    /\ last.op = "cleanup"
    /\ last.cleaned = 1
    /\ Cardinality(DOMAIN cache) = 1
    /\ \A k \in DOMAIN cache : now - cache[k].timestamp <= cache[k].ttl

\* C19: a clear() leaves a store of size 0, whatever the age of the entries
\* it held, and from then on get returns absent for every request until a
\* set: an operation other than set never makes an empty store non-empty,
\* and a get on an empty store returns null.
C19_ClearEmpties ==
    [][/\ last'.op = "clear"
          => /\ Cardinality(DOMAIN cache') = 0
             /\ \A r \in Requests : \A t \in Instants :
                   GetResult(cache', r[1], r[2], t) = JNull
       /\ (Cardinality(DOMAIN cache) = 0 /\ last'.op # "set")
          => /\ Cardinality(DOMAIN cache') = 0
             /\ last'.op = "get" => last'.result = JNull]_vars

\* a clear ran at the reading 1000, where every entry stored so far is fresh
C19_Witness ==
    /\ last.op = "clear"
    /\ cache = EmptyMap
    /\ now = 1000

\* the entry under k is in the store and expired
ExpiredInStore(k) ==
    k \in DOMAIN cache /\ now - cache[k].timestamp > cache[k].ttl

\* C18: with the cleanup timer firing every 60 seconds, an expired entry is
\* in the store only if it expired after the last tick of the timer, and
\* every expired entry in the store is eventually removed (or replaced by a
\* set), whether or not its key is looked up again.
C18_BackgroundSweep ==
    /\ [](\A k \in DOMAIN cache :
             ExpiredInStore(k)
                => (now \div 60000) * 60000 - cache[k].timestamp <= cache[k].ttl)
    /\ \A r \in Requests :
          ExpiredInStore(generateKey(r[1], r[2]))
             ~> ~ExpiredInStore(generateKey(r[1], r[2]))

\* a tick of the timer removed an entry that was stored at 1000 and expired
\* between two ticks
C18_Witness ==
    /\ last.op = "cleanup"
    /\ last.at = 180000
    /\ last.cleaned = 1
    /\ now = 180000
    /\ Cardinality(DOMAIN cache) = 1

C23_HitHasNoSideEffect ==
    [][\A u \in RequestUrls : \A h \in RequestHeaders(u) :
          LET k == KeyTable[u, h]
          IN ( /\ GetStep(u, h)
               /\ k \in DOMAIN cache
               /\ now - cache[k].timestamp <= cache[k].ttl )
                 => /\ last'.result = cache[k].data
                    /\ DOMAIN cache' = DOMAIN cache
                    /\ cache'[k].data = cache[k].data
                    /\ cache'[k].timestamp = cache[k].timestamp
                    /\ cache'[k].ttl = cache[k].ttl
                    /\ \A x \in DOMAIN cache \ {k} : cache'[x] = cache[x]]_vars

\* a hit at a reading later than the set, with a second entry in the store
C23_Witness ==
    /\ last.op = "get"
    /\ last.result # JNull
    /\ last.at > last.entry.timestamp
    /\ Cardinality(DOMAIN cache) = 2
    /\ cache[KeyOf(last)] = last.entry

\* C24: a get on a key with no entry returns null and leaves the store,
\* its size and every entry, unchanged.
C24_MissOnAbsentKey ==
    [][\A u \in RequestUrls : \A h \in RequestHeaders(u) :
          ( /\ GetStep(u, h)
            /\ KeyTable[u, h] \notin DOMAIN cache )
              => /\ last'.result = JNull
                 /\ Cardinality(DOMAIN cache') = Cardinality(DOMAIN cache)
                 /\ cache' = cache]_vars

\* a miss on a missing key with two other entries in the store
C24_Witness ==
    /\ last.op = "get"
    /\ last.entry = NoEntry
    /\ last.result = JNull
    /\ KeyOf(last) \notin DOMAIN cache
    /\ Cardinality(DOMAIN cache) = 2

\* the timestamp of the entry stored for u
StoredAt(u) == cache[generateKey(u, NoHeaders)].timestamp

\* C30: every stored entry's ttl is 120000, 300000 or 600000 ms and is the
\* getTTL of its URL; a set that replaces an entry stores the ttl the
\* replaced entry had; and no storedAt is later than the clock, which only
\* moves forward.
C30_TTLOfStoredEntries ==
    /\ \A u \in RuleUrls :
          Stored(u) => /\ StoredTTL(u) \in {120000, 300000, 600000}
                       /\ StoredTTL(u) = getTTL(u)
                       /\ StoredAt(u) <= now
    /\ (last.op = "set" /\ last.entry # NoEntry /\ Stored(last.url))
          => StoredTTL(last.url) = last.entry.ttl
    /\ DOMAIN cache \subseteq {generateKey(u, NoHeaders) : u \in RuleUrls}

\* the contributors entry stored again under its key at a later reading,
\* next to an entry with the ten-minute TTL
C30_Witness ==
    /\ last.op = "set"
    /\ last.url = UrlContributors
    /\ last.entry # NoEntry
    /\ last.at > last.entry.timestamp
    /\ {cache[k].ttl : k \in DOMAIN cache} = {120000, 600000}

\* the payloads the successful upstream answers decode to
DecodedOf(body) ==
    CASE body = BodyStars -> JStars
      [] body = BodyEmptyArray -> JEmptyArray
      [] body = BodyZero -> JZero
      [] OTHER -> JNull

\* the step adds or changes the entry under k as the set of a cachedFetch
\* call does: after a successful answer whose body decodes and, when
\* afterMiss, only in a call whose get returned absent
CreatedBySet(k, afterMiss) ==
    \E c \in CallIds :
       /\ calls[c].pc = "decoding"
       /\ calls'[c].pc = "done"
       /\ k = CallKey(calls[c])
       /\ calls[c].fetched = 1
       /\ Success(calls[c].response.status)
       /\ calls[c].response.body \in {BodyStars, BodyEmptyArray, BodyZero}
       /\ cache'[k].data = DecodedOf(calls[c].response.body)
       /\ cache'[k].timestamp = now
       /\ last'.op = "set"
       /\ afterMiss => calls[c].cachedData = JNull

\* a step adds or changes entries only as CreatedBySet says, and removes
\* entries only in a get (the looked-up key, expired), a cleanup or a clear
LifecycleStep(afterMiss) ==
    /\ \A k \in DOMAIN cache' :
          (k \notin DOMAIN cache \/ cache'[k] # cache[k])
              => CreatedBySet(k, afterMiss)
    /\ (last' # last /\ last'.op \in {"get", "cleanup", "clear"})
          => \A k \in DOMAIN cache' : k \in DOMAIN cache /\ cache'[k] = cache[k]
    /\ \A k \in DOMAIN cache \ DOMAIN cache' :
          \/ last'.op = "clear"
          \/ last'.op = "cleanup" /\ now - cache[k].timestamp > cache[k].ttl
          \/ /\ last'.op = "get" /\ KeyOf(last') = k
             /\ now - cache[k].timestamp > cache[k].ttl

\* the lifecycle of C25 without the condition that the set follows a miss
LifecycleExceptMiss == [][LifecycleStep(FALSE)]_vars

\* C25: every entry is created by the set of a cachedFetch call, which
\* happens only after a miss (get returned absent), a successful upstream
\* answer and a successful decode; get, cleanup and clear add and change
\* nothing; entries disappear only by the eviction of get, by cleanup or by
\* clear.
C25_EntryLifecycle == [][LifecycleStep(TRUE)]_vars

\* the call ends in a failure: a thrown error or a non-success response
Failed(result) ==
    \/ result.kind = "error"
    \/ result.kind = "response" /\ ~Success(result.status)

\* C27: a cachedFetch call on a key whose entry is expired removes the entry
\* at its get and takes the miss path, so the expired payload is not served;
\* when the call that found no fresh entry then fails (non-success status,
\* rejected fetch or undecodable body) the caller gets the failure and the
\* key has no entry.
C27_NoStaleOnFailure ==
    [][\A c \in CallIds :
          /\ ( /\ calls[c].pc \in {"idle", "done"}
               /\ calls'[c].pc = "gotCache"
               /\ CallKey(calls'[c]) \in DOMAIN cache
               /\ now - cache[CallKey(calls'[c])].timestamp
                     > cache[CallKey(calls'[c])].ttl )
                 => /\ CallKey(calls'[c]) \notin DOMAIN cache'
                    /\ calls'[c].cachedData = JNull
          /\ ( /\ calls[c].pc \in {"fetching", "decoding"}
               /\ calls'[c].pc = "done"
               /\ calls[c].cachedData = JNull
               /\ Failed(calls'[c].result) )
                 => /\ CallKey(calls[c]) \notin DOMAIN cache'
                    /\ calls'[c].fetched = 1
                    /\ cache' = cache]_vars

\* the call found an expired entry, the upstream answered 404, and the key
\* has no entry
C27_Witness ==
    \E c \in CallIds :
       /\ calls[c].pc = "done"
       /\ calls[c].result = Response("upstream", 404, BodyNotFound)
       /\ last.op = "get"
       /\ KeyOf(last) = CallKey(calls[c])
       /\ last.entry # NoEntry
       /\ Age(last) > last.entry.ttl
       /\ cache = EmptyMap

\* C28: a clear() during a cachedFetch call leaves the call as it is, and
\* the call whose successful answer is decoded after the clear still sets
\* its payload: the store holds the entry again, the call having made its
\* one request before the clear.
C28_ClearDoesNotCancel ==
    [][\A c \in CallIds :
          /\ (last'.op = "clear" /\ last' # last) => calls'[c] = calls[c]
          /\ ( /\ calls[c].pc = "decoding"
               /\ calls'[c].pc = "done"
               /\ last.op = "clear"
               /\ calls[c].response.body \in {BodyStars, BodyEmptyArray, BodyZero} )
                 => /\ CallKey(calls[c]) \in DOMAIN cache'
                    /\ cache'[CallKey(calls[c])].data
                          = DecodedOf(calls[c].response.body)
                    /\ cache'[CallKey(calls[c])].timestamp = now
                    /\ calls'[c].fetched = 1
                    /\ last'.op = "set"]_vars

\* the store was cleared while the call holds a successful answer that is
\* not decoded yet
C28_Witness ==
    \E c \in CallIds :
       /\ calls[c].pc = "decoding"
       /\ calls[c].response.body = BodyStars
       /\ calls[c].fetched = 1
       /\ last.op = "clear"
       /\ cache = EmptyMap

\* what the store holds fresh for a URL and a headers option at the reading
\* t: the payload, or null; the method is no argument
Decision(url, hasHeaders, headers, t) ==
    LET k == generateKey(url, IF hasHeaders THEN headers ELSE << >>)
    IN IF k \in DOMAIN cache /\ t - cache[k].timestamp <= cache[k].ttl
       THEN cache[k].data
       ELSE JNull

\* C29: the payload a cachedFetch call gets from the cache, and with it the
\* decision between hit and miss, is determined by the URL, the headers
\* option (absent counting as empty), the store and the clock; a call with
\* another method is answered from the fresh entry (an object or an array)
\* a call with the same URL and headers stored, without a request.
C29_DecisionIgnoresOtherOptions ==
    [][\A c \in CallIds :
          /\ (calls[c].pc \in {"idle", "done"} /\ calls'[c].pc = "gotCache")
                => calls'[c].cachedData
                      = Decision(calls'[c].url, calls'[c].options.hasHeaders,
                                 calls'[c].options.headers, now)
          /\ (calls[c].pc = "gotCache" /\ calls'[c].pc # "gotCache")
                => /\ calls[c].cachedData.kind \in {"object", "array"}
                         => /\ calls'[c].pc = "done"
                            /\ calls'[c].fetched = 0
                            /\ calls'[c].result
                                  = NewResponse(calls[c].cachedData, 200)
                   /\ calls[c].cachedData = JNull
                         => calls'[c].pc = "fetching"]_vars

\* a POST without a headers option is answered with the payload only a GET
\* gets from the upstream, without a request
C29_Witness ==
    \E c \in CallIds :
       /\ calls[c].pc = "done"
       /\ calls[c].options = Options(FALSE, NoHeaders, "POST")
       /\ calls[c].fetched = 0
       /\ calls[c].result = NewResponse(JStars, 200)

RaceKey == generateKey(UrlRepo, NoHeaders)

\* C21: with two cachedFetch calls for one key in flight, each set leaves
\* exactly one entry under the key, holding the payload decoded in that step
\* and the time of that step, whatever the store held and whichever call
\* started first; the store never holds anything but that one entry, and its
\* payload is that of the set executed last.
C21_RacingSets ==
    [][/\ \A c \in RaceIds :
             (calls[c].pc = "decoding" /\ calls'[c].pc = "done")
                 => /\ DOMAIN cache' = {RaceKey}
                    /\ cache'[RaceKey].data = DecodedOf(calls[c].response.body)
                    /\ cache'[RaceKey].timestamp = now
                    /\ cache'[RaceKey].ttl = 120000
                    /\ calls'[c].result.status = calls[c].response.status
                    /\ \A d \in RaceIds \ {c} : calls'[d] = calls[d]
       /\ DOMAIN cache' \subseteq {RaceKey}
       /\ (last'.op = "set" /\ RaceKey \in DOMAIN cache')
             => cache'[RaceKey].data = last'.data]_vars

\* both calls missed at the reading 0, where a stored entry would have been
\* fresh, both made their request, call 2 was answered and stored first, and
\* the store holds the payload of call 1, stored after the clock moved
C21_Witness ==
    /\ calls[1].pc = "done" /\ calls[2].pc = "done"
    /\ calls[1].cachedData = JNull /\ calls[2].cachedData = JNull
    /\ calls[1].result = NewResponse(JStars, 200)
    /\ calls[2].result = NewResponse(JEmptyArray, 201)
    /\ last.op = "set" /\ last.entry.data = JEmptyArray
    /\ last.entry.timestamp = 0
    /\ cache[RaceKey].data = JStars
    /\ cache[RaceKey].timestamp = 1000

\* C26: a cachedFetch call is answered from the cache exactly when its get
\* finds an entry within its TTL; every call whose get returned absent makes
\* one upstream request of its own, also while a request of another call for
\* the same key is in flight, and a call that made no request was a hit.
C26_MissesNotCoalesced ==
    [][\A c \in RaceIds :
          /\ (calls[c].pc \in {"idle", "done"} /\ calls'[c].pc = "gotCache")
                => (calls'[c].cachedData # JNull
                       <=> /\ RaceKey \in DOMAIN cache
                           /\ now - cache[RaceKey].timestamp
                                 <= cache[RaceKey].ttl)
          /\ ( /\ calls[c].pc = "gotCache"
               /\ calls'[c].pc # "gotCache"
               /\ calls[c].cachedData = JNull )
                 => /\ calls'[c].pc = "fetching"
                    /\ calls'[c].fetched = calls[c].fetched + 1
                    /\ \A d \in RaceIds \ {c} : calls'[d] = calls[d]
          /\ (calls'[c].pc \in {"fetching", "decoding"})
                => calls'[c].fetched = 1
          /\ (calls'[c].pc = "done" /\ calls'[c].fetched = 0)
                => calls'[c].cachedData # JNull]_vars

\* two calls for the same absent key have each made a request and neither
\* answer has been stored
C26_Witness ==
    /\ \A c \in RaceIds :
          /\ calls[c].pc \in {"fetching", "decoding"}
          /\ calls[c].cachedData = JNull
          /\ calls[c].fetched = 1
    /\ calls[1].pc = "fetching"
    /\ cache = EmptyMap

\* the next step of the cachedFetch call d can be taken
CanProceed(d) ==
    CASE calls[d].pc \in {"idle", "done"} ->
            \A u \in LockUrls : ENABLED CallGet(d, u, NoOptions)
      [] calls[d].pc = "gotCache" -> ENABLED (CallHit(d) \/ CallFetch(d))
      [] calls[d].pc = "fetching" ->
            ENABLED FetchResolve(d, Response("upstream", 200, BodyStars))
      [] calls[d].pc = "decoding" -> ENABLED JsonResolve(d)

\* C22: while a cachedFetch call waits for its upstream answer, get and set
\* on its key and on another key, cleanup, clear, and the next step of every
\* other cachedFetch call can run: nothing waits for the call's fetch.
C22_NoLockAcrossFetch ==
    \A c \in RaceIds :
       calls[c].pc = "fetching"
          => /\ \A u \in LockUrls :
                   /\ ENABLED Get(u, NoHeaders)
                   /\ ENABLED Set(u, NoHeaders, JEmptyArray)
             /\ ENABLED Clear
             /\ ENABLED Cleanup
             /\ \A d \in RaceIds \ {c} : CanProceed(d)

\* call 1 still waits for its answer; since its get, call 2 has decoded its
\* answer and stored it under the same key
C22_Witness ==
    /\ calls[1].pc = "fetching"
    /\ calls[1].url = UrlRepo
    /\ calls[2].pc = "done"
    /\ calls[2].url = UrlRepo
    /\ calls[2].fetched = 1
    /\ last.op = "set"
    /\ last.data = JStars
    /\ last.url = UrlRepo
    /\ RaceKey \in DOMAIN cache

====
